---- MODULE Spec2Model ----
(***************************************************************************)
(* Model of migrate_bitbucket_snippets_to_bookstack.py: main() walks the   *)
(* snippets of a workspace, resolves one Bookstack book per snippet and    *)
(* replays the commit history of every file of the snippet into one page.  *)
(* The two remote systems are the environment: the source is an immutable  *)
(* snapshot, the destination is the books and pages it holds, and every    *)
(* request may succeed or fail.                                            *)
(***************************************************************************)
EXTENDS Integers, Sequences, FiniteSets, TLC

\* ------------------------------------------------------------ bounds
\* Most commits in a snippet's history.
MaxCommits == 3
\* Most commits in a snippet's history when the snippet has two files.
MaxSiblingCommits == 2
\* Items per page of a source listing (the `pagelen` of the source API).
PageLen == 2
\* Most commits in a snippet's history when the workspace has two snippets.
MaxWorkspaceCommits == 1
\* Most snippets in a workspace whose listing takes several pages.
MaxSnippets == 5

\* ------------------------------------------------------------ values
\* Python's None where a string is expected: the content make_request gives on
\* an error or on the tolerated 404.
None == "None"
\* None where an identifier is expected (book_id, page_id); the identifiers of
\* the destination are positive, and `not page_id` treats None and 0 alike.
NoId == 0
\* None where a page payload is expected (previous_page_content at line 359).
NoPayload == <<>>
\* The source's answer for a file that does not exist at a commit (HTTP 404).
NotFound == "404"
\* The hash of the commit main() synthesizes for an empty history ("HEAD").
HEAD == 0
\* File contents.
Contents == {"A", "B"}
\* The markdown of a page that was in the destination before the first run.
OldMarkdown == <<"old">>
\* What a single request can give: a usable answer, or an error (transport,
\* HTTP status, undecodable JSON), for which make_request returns None.
Outcomes == {"ok", "error"}

\* ------------------------------------------------------------ sequences
Reversed(s) == [i \in 1..Len(s) |-> s[Len(s) + 1 - i]]

Min(a, b) == IF a < b THEN a ELSE b

Range(s) == {s[i] : i \in 1..Len(s)}

RECURSIVE SelectPositions(_, _, _)
\* The subsequence of s at the positions in keep, from position i on.
SelectPositions(s, keep, i) ==
    IF i > Len(s) THEN <<>>
    ELSE (IF i \in keep THEN <<s[i]>> ELSE <<>>) \o SelectPositions(s, keep, i + 1)

\* ------------------------------------------------------------ source
\* One snippet of the source: its id and title, the names of its current
\* files in listing order, the number of its commits (the commit of
\* chronological rank k has hash k, 1 the oldest) and the content of every
\* file at every commit, NotFound where the file does not exist.  HEAD names
\* the current state, which is the newest commit when there is one.  The
\* commit of rank k is dated k, and the snippet was last updated by its
\* newest commit.
SnippetsLike(id, title, files, maxCommits) ==
    { s \in UNION { [id : {id}, title : {title}, files : {files}, ncommits : {n},
                     updated_on : {n},
                     content : [Range(files) \X (0..n) -> Contents \cup {NotFound}]] :
                    n \in 0..maxCommits } :
        s.ncommits > 0 =>
            \A f \in Range(files) : s.content[<<f, HEAD>>] = s.content[<<f, s.ncommits>>] }

\* The snippets of id 1 and title "t".
SnippetsWith(files, maxCommits) == SnippetsLike(1, "t", files, maxCommits)

\* The commit listing of the source API: newest first.
NewestFirst(n) == [i \in 1..n |-> [hash |-> n + 1 - i, date |-> n + 1 - i]]

RECURSIVE Batches(_)
\* A listing as the source serves it: pages of PageLen items, each but the
\* last carrying a `next` cursor; an empty listing is one empty page.
Batches(list) ==
    IF Len(list) <= PageLen THEN <<list>>
    ELSE <<SubSeq(list, 1, PageLen)>> \o Batches(SubSeq(list, PageLen + 1, Len(list)))

\* What one page request can give: the page, an error (make_request returns
\* None), or well-formed JSON without the `values` key.
PageOutcomes == {"ok", "error", "novalues"}

\* The result of a paginated fetch: the items, or the failure signal (None).
Fetched(values) == [failed |-> FALSE, values |-> values]
FetchFailed == [failed |-> TRUE, values |-> <<>>]

RECURSIVE PaginatedFromPartial(_, _, _, _)
\* Mutant of PaginatedFrom: a failed page request ends the walk like a page
\* without `values`, with what was accumulated.
PaginatedFromPartial(batches, script, k, results) ==
    IF k > Len(batches) THEN Fetched(results)
    ELSE IF script[k] = "error" THEN Fetched(results)
    ELSE IF script[k] = "novalues" THEN Fetched(results)
    ELSE PaginatedFromPartial(batches, script, k + 1, results \o batches[k])

RECURSIVE PaginatedFrom(_, _, _, _)
\* The loop of get_paginated_results from the k-th page on; script[k] is the
\* outcome of the k-th request.
PaginatedFrom(batches, script, k, results) ==
    IF k > Len(batches) THEN Fetched(results)
    ELSE IF script[k] = "error" THEN FetchFailed
    ELSE IF script[k] = "novalues" THEN Fetched(results)
    ELSE PaginatedFrom(batches, script, k + 1, results \o batches[k])

get_paginated_results(list, script) == PaginatedFrom(Batches(list), script, 1, <<>>)

\* The scripts of a listing: one outcome per page; the requests after the
\* first one that is not "ok" are never made, so they are scripted "ok".
Scripts(list) ==
    { s \in [1..Len(Batches(list)) -> PageOutcomes] :
        \A j, k \in DOMAIN s : (j < k /\ s[j] # "ok") => s[k] = "ok" }

\* Mutant of get_snippet_commits: the listing is not reversed.
get_snippet_commits_unreversed(n, script) ==
    LET commits == get_paginated_results(NewestFirst(n), script)
    IN  IF commits.failed THEN FetchFailed ELSE Fetched(commits.values)

\* get_snippet_commits: the paginated commit listing, reversed to oldest first.
get_snippet_commits(n, script) ==
    LET commits == get_paginated_results(NewestFirst(n), script)
    IN  IF commits.failed THEN FetchFailed ELSE Fetched(Reversed(commits.values))

\* Mutant of get_snippet_revision_content: a 404 gives the text of the error
\* page's body instead of None.
get_snippet_revision_content_404_text(stored, resp) ==
    IF resp = "error" THEN None ELSE stored

\* Mutant of get_snippet_revision_content: a failed request gives a text (the
\* body of the error response) instead of None.
get_snippet_revision_content_error_text(stored, resp) ==
    IF stored = NotFound THEN None
    ELSE IF resp = "error" THEN "A"
    ELSE stored

\* get_snippet_revision_content: None on the tolerated 404 and on any error.
get_snippet_revision_content(stored, resp) ==
    IF resp = "error" \/ stored = NotFound THEN None ELSE stored

\* Line 365: the provenance of a commit (short hash, author, date, message).
\* The author, the date and the message belong to the commit, so the hash
\* stands for all of them: two commits never have the same provenance.
commit_info(commit) == <<"Commit", commit.hash>>

\* Line 378: the header put before the content.
HeaderInfo(commit) == "\n\n"

\* Line 379: page_content = header_info + content.
PageContent(commit, content) == <<HeaderInfo(commit), content>>

\* ------------------------------------------------------------ state
VARIABLES
    source,      \* the source snapshot: a sequence of snippets (never changes)
    args,        \* the command line: skip_existing_books, skip_existing_pages, test_snippet_id
    run,         \* which invocation of main() this is
    books,       \* destination: the book names; a book's id is its position
    pages,       \* destination: [book_id, name, markdown]; a page's id is its position
    pc,          \* where main() is
    exitCode,    \* <<c>> once the process has exited with code c, <<>> while it runs
    snippets,    \* main: the snippet listing
    si,          \* main: position of snippet_summary in snippets
    book_id,
    current_files,
    fi,          \* main: position of filename in current_files
    commits,
    ci,          \* main: position of commit in commits
    page_id,
    page_created_in_this_run,
    processed_first_commit_for_page,
    previous_page_content,
    calls        \* history: the requests and reports of this run, in order

env == <<source, args>>
dest == <<books, pages>>
walk == <<snippets, si, book_id, current_files, fi, commits, ci>>
cursor == <<page_id, page_created_in_this_run, processed_first_commit_for_page,
            previous_page_content>>
vars == <<env, run, dest, pc, exitCode, walk, cursor, calls>>

\* The process has not exited / has exited with code c.
Running == <<>>
Exited(c) == <<c>>

\* The commit of a request that is about no commit.
NoCommit == HEAD - 1

\* One entry of the history, a request or a report: `ok` tells that the request was answered (a
\* 404 for a file's content is an answer), `payload` is the page payload of a
\* write and of a fetch that gave content, `id` the id found, created or
\* updated.  For a listing of the source, `payload` is the sequence of the
\* outcomes of its page requests.
Call(op, file, commit, payload, id, ok) ==
    [op |-> op, snippet |-> si, file |-> file, commit |-> commit,
     payload |-> payload, id |-> id, ok |-> ok]

Snippet(id) == source[CHOOSE i \in 1..Len(source) : source[i].id = id]

\* The snippet listing of the workspace: id and title of every snippet.
Summaries == [i \in 1..Len(source) |-> [id |-> source[i].id, title |-> source[i].title]]

InitWith(snippetLists, argSets, destStates) ==
    /\ source \in snippetLists
    /\ args \in argSets
    /\ \E d \in destStates : books = d.books /\ pages = d.pages
    /\ run = 1
    /\ pc = "start"
    /\ exitCode = Running
    /\ snippets = <<>>
    /\ si = 0
    /\ book_id = NoId
    /\ current_files = <<>>
    /\ fi = 0
    /\ commits = <<>>
    /\ ci = 0
    /\ page_id = NoId
    /\ page_created_in_this_run = FALSE
    /\ processed_first_commit_for_page = FALSE
    /\ previous_page_content = NoPayload
    /\ calls = <<>>

\* ------------------------------------------------------------ destination
\* find_bookstack_book: the first book of the listing whose name is `name`;
\* None when there is none and when the request fails.
find_bookstack_book(name, resp) ==
    IF resp = "ok" /\ \E b \in 1..Len(books) : books[b] = name
    THEN CHOOSE b \in 1..Len(books) :
             /\ books[b] = name
             /\ \A c \in 1..(b - 1) : books[c] # name
    ELSE NoId

\* Line 176: the batch size of the page listing.
count == 100

\* The ids of the pages of a book, in listing order.
PagesOfBook(book) ==
    SelectPositions([p \in 1..Len(pages) |-> p],
                    {p \in 1..Len(pages) : pages[p].book_id = book}, 1)

RECURSIVE FindPageFrom(_, _, _, _)
\* The loop of find_bookstack_page from `offset` on: the first page of the
\* book named page_name; None when there is none and when a request fails.
FindPageFrom(listing, page_name, offset, resp) ==
    LET current_pages == SubSeq(listing, offset + 1, Min(offset + count, Len(listing)))
        found == {k \in 1..Len(current_pages) : pages[current_pages[k]].name = page_name}
    IN  IF resp # "ok" THEN NoId
        ELSE IF current_pages = <<>> THEN NoId
        ELSE IF found # {}
             THEN current_pages[CHOOSE k \in found : \A j \in found : k <= j]
        ELSE IF Len(listing) <= offset + Len(current_pages) THEN NoId
        ELSE FindPageFrom(listing, page_name, offset + Len(current_pages), resp)

find_bookstack_page(book, page_name, resp) ==
    FindPageFrom(PagesOfBook(book), page_name, 0, resp)

\* `if page_id` / `if target_book`: None (and 0) is false.
Truthy(id) == id # NoId

\* ------------------------------------------------------------ main: loops
\* `continue` in the snippet loop, and the end of its body: the next snippet,
\* or "Migration Complete" and exit code 0 after the last one.
NextSnippet ==
    IF si < Len(snippets)
    THEN si' = si + 1 /\ pc' = "book" /\ exitCode' = exitCode
    ELSE si' = si /\ pc' = "exit" /\ exitCode' = Exited(0)

\* `continue` in the file loop, and the end of its body: the next file, or
\* the next snippet after the last one.
NextFile ==
    IF fi < Len(current_files)
    THEN fi' = fi + 1 /\ pc' = "file" /\ si' = si /\ exitCode' = exitCode
    ELSE fi' = fi /\ NextSnippet

\* ------------------------------------------------------------ main: steps
\* get_bitbucket_snippets: the one snippet when --test-snippet-id is given
\* (an empty list when that request fails), the paginated listing otherwise.
get_bitbucket_snippets(specific_snippet_id, script, resp) ==
    IF specific_snippet_id # NoId
    THEN IF resp = "ok" /\ \E i \in 1..Len(Summaries) : Summaries[i].id = specific_snippet_id
         THEN Fetched(<<Summaries[CHOOSE i \in 1..Len(Summaries) :
                                      Summaries[i].id = specific_snippet_id]>>)
         ELSE Fetched(<<>>)
    ELSE get_paginated_results(Summaries, script)

\* Lines 274-280: fetch the snippets; exit 1 on failure, exit 0 on none.
GetSnippets ==
    /\ pc = "start"
    /\ \E script \in Scripts(Summaries), resp \in Outcomes :
         LET result == get_bitbucket_snippets(args.test_snippet_id, script, resp) IN
         /\ IF args.test_snippet_id # NoId
            THEN \A k \in DOMAIN script : script[k] = "ok"
            ELSE resp = "ok"
         /\ snippets' = result.values
         /\ calls' = Append(calls, Call("list_snippets", "", NoCommit,
                                        IF args.test_snippet_id # NoId THEN <<resp>>
                                        ELSE script, NoId,
                                        IF args.test_snippet_id # NoId THEN resp = "ok"
                                        ELSE ~result.failed))
         /\ IF result.failed
            THEN pc' = "exit" /\ exitCode' = Exited(1) /\ si' = si
            ELSE IF result.values = <<>>
            THEN pc' = "exit" /\ exitCode' = Exited(0) /\ si' = si
            ELSE pc' = "book" /\ exitCode' = exitCode /\ si' = 1
    /\ UNCHANGED <<env, run, dest, book_id, current_files, fi, commits, ci, cursor>>

\* Lines 284-314: find the snippet's book by its title, or create it.
ResolveBook ==
    /\ pc = "book"
    /\ \E lookup \in Outcomes, create \in Outcomes :
         LET snippet_title == snippets[si].title
             target_book == find_bookstack_book(snippet_title, lookup)
             new_id == Len(books) + 1
             found == Call("find_book", snippet_title, NoCommit, NoPayload, target_book,
                           lookup = "ok")
             created == Call("create_book", snippet_title, NoCommit, NoPayload,
                             IF create = "ok" THEN new_id ELSE NoId, create = "ok")
         IN
         /\ Truthy(target_book) => create = "ok"
         /\ IF Truthy(target_book)
            THEN /\ calls' = Append(calls, found)
                 /\ UNCHANGED books
                 /\ IF args.skip_existing_books
                    THEN book_id' = NoId /\ NextSnippet
                    ELSE /\ book_id' = target_book
                         /\ pc' = "details" /\ UNCHANGED <<si, exitCode>>
            ELSE /\ calls' = calls \o <<found, created>>
                 /\ IF create = "ok"
                    THEN /\ books' = Append(books, snippet_title)
                         /\ book_id' = new_id
                         /\ pc' = "details" /\ UNCHANGED <<si, exitCode>>
                    ELSE /\ UNCHANGED books
                         /\ book_id' = NoId /\ NextSnippet
    /\ UNCHANGED <<env, run, pages, snippets, current_files, fi, commits, ci, cursor>>

\* Lines 317-325: the snippet's details; skip the snippet when they cannot be
\* fetched or list no file.
FetchDetails ==
    /\ pc = "details"
    /\ \E resp \in Outcomes :
         /\ calls' = Append(calls, Call("details", "", NoCommit, NoPayload, NoId,
                                        resp = "ok"))
         /\ IF resp = "ok" /\ Snippet(snippets[si].id).files # <<>>
            THEN /\ current_files' = Snippet(snippets[si].id).files
                 /\ pc' = "history" /\ UNCHANGED <<si, exitCode>>
            ELSE /\ current_files' = IF resp = "ok" THEN <<>> ELSE current_files
                 /\ NextSnippet
    /\ UNCHANGED <<env, run, dest, snippets, book_id, fi, commits, ci, cursor>>

\* Mutant of FetchCommits: a failed history fetch is taken for an empty
\* history (`if not commits` without the `is None` test before it).
FetchCommitsIgnoresFailure ==
    /\ pc = "history"
    /\ \E script \in Scripts(NewestFirst(Snippet(snippets[si].id).ncommits)) :
         LET result == get_snippet_commits(Snippet(snippets[si].id).ncommits, script) IN
         /\ calls' = Append(calls, Call("commits", "", NoCommit, script, NoId,
                                        ~result.failed))
         /\ commits' = IF result.values = <<>>
                       THEN <<[hash |-> HEAD,
                               date |-> Snippet(snippets[si].id).updated_on]>>
                       ELSE result.values
         /\ fi' = 1
         /\ pc' = "file" /\ UNCHANGED <<si, exitCode>>
    /\ UNCHANGED <<env, run, dest, snippets, book_id, current_files, ci, cursor>>

\* Mutant of FetchCommits: no commit is synthesized for an empty history.
FetchCommitsNoSynthetic ==
    /\ pc = "history"
    /\ \E script \in Scripts(NewestFirst(Snippet(snippets[si].id).ncommits)) :
         LET result == get_snippet_commits(Snippet(snippets[si].id).ncommits, script) IN
         /\ calls' = Append(calls, Call("commits", "", NoCommit, script, NoId,
                                        ~result.failed))
         /\ IF result.failed
            THEN commits' = commits /\ fi' = fi /\ NextSnippet
            ELSE /\ commits' = result.values
                 /\ fi' = 1
                 /\ pc' = "file" /\ UNCHANGED <<si, exitCode>>
    /\ UNCHANGED <<env, run, dest, snippets, book_id, current_files, ci, cursor>>

\* Lines 327-335: the commits, oldest first; skip the snippet when the fetch
\* fails; one synthetic commit when the history is empty.
FetchCommits ==
    /\ pc = "history"
    /\ \E script \in Scripts(NewestFirst(Snippet(snippets[si].id).ncommits)) :
         LET result == get_snippet_commits(Snippet(snippets[si].id).ncommits, script) IN
         /\ calls' = Append(calls, Call("commits", "", NoCommit, script, NoId,
                                        ~result.failed))
         /\ IF result.failed
            THEN commits' = commits /\ fi' = fi /\ NextSnippet
            ELSE /\ commits' = IF result.values = <<>>
                               THEN <<[hash |-> HEAD,
                                       date |-> Snippet(snippets[si].id).updated_on]>>
                               ELSE result.values
                 /\ fi' = 1
                 /\ pc' = "file" /\ UNCHANGED <<si, exitCode>>
    /\ UNCHANGED <<env, run, dest, snippets, book_id, current_files, ci, cursor>>

\* ------------------------------------------------------------ main: replay
\* The per-file state of the replay loop.
Cursor ==
    [page_id |-> page_id,
     created |-> page_created_in_this_run,
     first |-> processed_first_commit_for_page,
     prev |-> previous_page_content]

\* Mutant of CreatePage: a failed create does not stop the replay.
CreatePageNoBreak(cur, page_content, write, new_id) ==
    IF write = "ok"
    THEN [cur |-> [page_id |-> new_id, created |-> TRUE, first |-> TRUE,
                   prev |-> page_content],
          writes |-> <<[op |-> "create", id |-> new_id, ok |-> TRUE]>>,
          brk |-> FALSE]
    ELSE [cur |-> [cur EXCEPT !.prev = page_content],
          writes |-> <<[op |-> "create", id |-> NoId, ok |-> FALSE]>>,
          brk |-> FALSE]

\* Mutant of CreatePage: the creating revision goes on to the update branch
\* (`if` for `elif`, with previous_page_content still unset).
CreatePageThenUpdate(cur, page_content, write, new_id) ==
    IF write = "ok"
    THEN [cur |-> [page_id |-> new_id, created |-> TRUE, first |-> FALSE,
                   prev |-> page_content],
          writes |-> <<[op |-> "create", id |-> new_id, ok |-> TRUE],
                       [op |-> "update", id |-> new_id, ok |-> TRUE]>>,
          brk |-> FALSE]
    ELSE [cur |-> cur,
          writes |-> <<[op |-> "create", id |-> NoId, ok |-> FALSE]>>,
          brk |-> TRUE]

\* Lines 384-392: create the page.  On success the id is recorded and the
\* two flags are set; on failure the replay of the file stops (`break`, which
\* also skips line 407).
CreatePage(cur, page_content, write, new_id) ==
    IF write = "ok"
    THEN [cur |-> [page_id |-> new_id, created |-> TRUE, first |-> TRUE,
                   prev |-> page_content],
          writes |-> <<[op |-> "create", id |-> new_id, ok |-> TRUE]>>,
          brk |-> FALSE]
    ELSE [cur |-> cur,
          writes |-> <<[op |-> "create", id |-> NoId, ok |-> FALSE]>>,
          brk |-> TRUE]

\* Mutant of UpdatePage: the payload is not compared with the previous one.
UpdatePageAlways(cur, page_content, write) ==
    [cur |-> [cur EXCEPT !.prev = page_content],
     writes |-> <<[op |-> "update", id |-> cur.page_id, ok |-> write = "ok"]>>,
     brk |-> FALSE]

\* Mutant of UpdatePage: a failed update stops the replay of the file, as a
\* failed create does.
UpdatePageBreakOnFailure(cur, page_content, write) ==
    [cur |-> [cur EXCEPT !.prev = page_content],
     writes |-> IF cur.prev # page_content
                THEN <<[op |-> "update", id |-> cur.page_id, ok |-> write = "ok"]>>
                ELSE <<>>,
     brk |-> cur.prev # page_content /\ write # "ok"]

\* Mutant of UpdatePage: the payload is recorded as the previous one only when
\* it was written (line 407 moved into the success branch of the update).
UpdatePageRecordsWritten(cur, page_content, write) ==
    [cur |-> IF cur.prev # page_content /\ write = "ok"
             THEN [cur EXCEPT !.prev = page_content]
             ELSE cur,
     writes |-> IF cur.prev # page_content
                THEN <<[op |-> "update", id |-> cur.page_id, ok |-> write = "ok"]>>
                ELSE <<>>,
     brk |-> FALSE]

\* Lines 395-401: update the page when the payload differs from the previous
\* one; a failed update is only reported.
UpdatePage(cur, page_content, write) ==
    [cur |-> [cur EXCEPT !.prev = page_content],
     writes |-> IF cur.prev # page_content
                THEN <<[op |-> "update", id |-> cur.page_id, ok |-> write = "ok"]>>
                ELSE <<>>,
     brk |-> FALSE]

\* Mutant of ResetFirst: the flag is never reset.
ResetFirstKeepsFlag(cur, page_content) ==
    [cur |-> [cur EXCEPT !.prev = page_content], writes |-> <<>>, brk |-> FALSE]

\* Lines 402-404: the revision after the creating one only resets the flag.
ResetFirst(cur, page_content) ==
    [cur |-> [cur EXCEPT !.first = FALSE, !.prev = page_content],
     writes |-> <<>>, brk |-> FALSE]

\* Mutant of SyncStep: the page is created whenever none was created in this
\* run, whether the lookup found one or not (`if not page_created_in_this_run`).
SyncStepCreatesFirst(cur, page_content, write, new_id) ==
    IF ~cur.created
    THEN CreatePage(cur, page_content, write, new_id)
    ELSE IF Truthy(cur.page_id) /\ ~cur.first
    THEN UpdatePage(cur, page_content, write)
    ELSE IF Truthy(cur.page_id) /\ cur.first
    THEN ResetFirst(cur, page_content)
    ELSE [cur |-> [cur EXCEPT !.prev = page_content], writes |-> <<>>, brk |-> FALSE]

\* Lines 382-407: what one revision with content does to the per-file state.
\* `write` is the outcome of the create or update request if one is made and
\* new_id the id the destination gives a created page.  `writes` are the
\* requests made, `brk` is the `break` of line 392.
SyncStep(cur, page_content, write, new_id) ==
    IF ~Truthy(cur.page_id) /\ ~cur.created
    THEN CreatePage(cur, page_content, write, new_id)
    ELSE IF Truthy(cur.page_id) /\ ~cur.first
    THEN UpdatePage(cur, page_content, write)
    ELSE IF Truthy(cur.page_id) /\ cur.first
    THEN ResetFirst(cur, page_content)
    ELSE [cur |-> [cur EXCEPT !.prev = page_content], writes |-> <<>>, brk |-> FALSE]

RECURSIVE DestAfter(_, _, _, _, _)
\* The pages of the destination after the write requests ws: a successful
\* create adds a page, a successful update replaces a page's markdown.
DestAfter(pgs, ws, book, name, page_content) ==
    IF ws = <<>> THEN pgs
    ELSE LET w == Head(ws)
             next == IF ~w.ok THEN pgs
                     ELSE IF w.op = "create"
                     THEN Append(pgs, [book_id |-> book, name |-> name,
                                       markdown |-> page_content])
                     ELSE [pgs EXCEPT ![w.id].markdown = page_content]
         IN  DestAfter(next, Tail(ws), book, name, page_content)

\* Mutant of EndOfCommit: the `break` of a failed create also leaves the loop
\* over the files.
EndOfCommitBreakAll(brk) ==
    IF brk
    THEN ci' = ci /\ fi' = fi /\ NextSnippet
    ELSE IF ci = Len(commits)
    THEN ci' = ci /\ NextFile
    ELSE ci' = ci + 1 /\ pc' = "replay" /\ UNCHANGED <<fi, si, exitCode>>

\* The end of one iteration of the commit loop: `break` and the last commit
\* end the file (lines 392, 412-413), else the next commit.
EndOfCommit(brk) ==
    IF brk \/ ci = Len(commits)
    THEN ci' = ci /\ NextFile
    ELSE ci' = ci + 1 /\ pc' = "replay" /\ UNCHANGED <<fi, si, exitCode>>

\* Mutant of StartFile: the previous payload starts as the markdown of the
\* page that was found.
StartFileSeedsPrevious ==
    /\ pc = "file"
    /\ \E resp \in Outcomes :
         LET filename == current_files[fi]
             target_page == find_bookstack_page(book_id, filename, resp)
         IN
         /\ calls' = Append(calls, Call("find_page", filename, NoCommit, NoPayload,
                                        target_page, resp = "ok"))
         /\ page_created_in_this_run' = FALSE
         /\ IF Truthy(target_page) /\ args.skip_existing_pages
            THEN /\ page_id' = NoId
                 /\ UNCHANGED <<processed_first_commit_for_page, previous_page_content, ci>>
                 /\ NextFile
            ELSE /\ page_id' = target_page
                 /\ processed_first_commit_for_page' = FALSE
                 /\ previous_page_content' =
                        IF Truthy(target_page) THEN pages[target_page].markdown
                        ELSE NoPayload
                 /\ ci' = 1
                 /\ pc' = "replay" /\ UNCHANGED <<fi, si, exitCode>>
    /\ UNCHANGED <<env, run, dest, snippets, book_id, current_files, commits>>

\* Lines 339-359: look the file's page up and reset the per-file state.
StartFile ==
    /\ pc = "file"
    /\ \E resp \in Outcomes :
         LET filename == current_files[fi]
             target_page == find_bookstack_page(book_id, filename, resp)
         IN
         /\ calls' = Append(calls, Call("find_page", filename, NoCommit, NoPayload,
                                        target_page, resp = "ok"))
         /\ page_created_in_this_run' = FALSE
         /\ IF Truthy(target_page) /\ args.skip_existing_pages
            THEN /\ page_id' = NoId
                 /\ UNCHANGED <<processed_first_commit_for_page, previous_page_content, ci>>
                 /\ NextFile
            ELSE /\ page_id' = target_page
                 /\ processed_first_commit_for_page' = FALSE
                 /\ previous_page_content' = NoPayload
                 /\ ci' = 1
                 /\ pc' = "replay" /\ UNCHANGED <<fi, si, exitCode>>
    /\ UNCHANGED <<env, run, dest, snippets, book_id, current_files, commits>>

\* Lines 412-413: when the commit loop of a file has ended (by `break` or
\* after the last commit) with no page id and no page created, the file is
\* reported: "Page was not created".
NotCreatedReport(cur, brk, filename) ==
    IF (brk \/ ci = Len(commits)) /\ ~Truthy(cur.page_id) /\ ~cur.created
    THEN <<Call("not_created", filename, NoCommit, NoPayload, NoId, TRUE)>>
    ELSE <<>>

\* Lines 360-413: one iteration of the commit loop: fetch the file's content
\* at the commit, then create the page, update it or leave it.
ApplyCommit ==
    /\ pc = "replay"
    /\ \E fetch \in Outcomes, write \in Outcomes :
         LET filename == current_files[fi]
             commit == commits[ci]
             stored == Snippet(snippets[si].id).content[<<filename, commit.hash>>]
             content == get_snippet_revision_content(stored, fetch)
             page_content == PageContent(commit, content)
             step == SyncStep(Cursor, page_content, write, Len(pages) + 1)
         IN
         IF content = None
         THEN /\ write = "ok"
              /\ calls' = Append(calls, Call("fetch", filename, commit.hash, NoPayload,
                                             NoId, fetch = "ok"))
                     \o NotCreatedReport(Cursor, FALSE, filename)
              /\ UNCHANGED <<cursor, pages>>
              /\ EndOfCommit(FALSE)
         ELSE /\ step.writes = <<>> => write = "ok"
              /\ calls' = calls
                     \o <<Call("fetch", filename, commit.hash, page_content, NoId,
                                 fetch = "ok")>>
                     \o [k \in 1..Len(step.writes) |->
                           Call(step.writes[k].op, filename, commit.hash, page_content,
                                step.writes[k].id, step.writes[k].ok)]
                     \o NotCreatedReport(step.cur, step.brk, filename)
              /\ page_id' = step.cur.page_id
              /\ page_created_in_this_run' = step.cur.created
              /\ processed_first_commit_for_page' = step.cur.first
              /\ previous_page_content' = step.cur.prev
              /\ pages' = DestAfter(pages, step.writes, book_id, filename, page_content)
              /\ EndOfCommit(step.brk)
    /\ UNCHANGED <<env, run, books, snippets, book_id, current_files, commits>>

\* Lines 418-419: the operator invokes the script again after it has exited;
\* the destination keeps what the first run wrote and the source is unchanged.
Rerun ==
    /\ pc = "exit"
    /\ run = 1
    /\ run' = run + 1
    /\ pc' = "start"
    /\ exitCode' = Running
    /\ snippets' = <<>>
    /\ si' = 0
    /\ book_id' = NoId
    /\ current_files' = <<>>
    /\ fi' = 0
    /\ commits' = <<>>
    /\ ci' = 0
    /\ page_id' = NoId
    /\ page_created_in_this_run' = FALSE
    /\ processed_first_commit_for_page' = FALSE
    /\ previous_page_content' = NoPayload
    /\ calls' = <<>>
    /\ UNCHANGED <<env, dest>>

\* ------------------------------------------------------------ specifications
\* The command lines: every combination of the two skip flags.
ArgSets ==
    [skip_existing_books : BOOLEAN, skip_existing_pages : BOOLEAN, test_snippet_id : {NoId}]

NoSkipArgs ==
    [skip_existing_books : {FALSE}, skip_existing_pages : {FALSE}, test_snippet_id : {NoId}]

\* Destinations before the first run: empty, the snippet's book without
\* pages, and the book with a page of the file's name.
DestStates ==
    { [books |-> <<>>, pages |-> <<>>],
      [books |-> <<"t">>, pages |-> <<>>],
      [books |-> <<"t">>,
       pages |-> <<[book_id |-> 1, name |-> "x", markdown |-> OldMarkdown]>>] }

EmptyDest == { [books |-> <<>>, pages |-> <<>>] }

\* One run over one snippet with one file.
Init == InitWith({<<s>> : s \in SnippetsWith(<<"x">>, MaxCommits)}, ArgSets, DestStates)

Next ==
    \/ GetSnippets
    \/ ResolveBook
    \/ FetchDetails
    \/ FetchCommits
    \/ StartFile
    \/ ApplyCommit

Spec == Init /\ [][Next]_vars

\* Two runs over one snippet with one file, the first on an empty destination.
InitRerun ==
    InitWith({<<s>> : s \in SnippetsWith(<<"x">>, MaxCommits)}, ArgSets, EmptyDest)

NextRerun == Next \/ Rerun

SpecRerun == InitRerun /\ [][NextRerun]_vars

\* Destinations for a snippet with the files x and y: empty, and the
\* snippet's book with a page for y.
SiblingDestStates ==
    { [books |-> <<>>, pages |-> <<>>],
      [books |-> <<"t">>,
       pages |-> <<[book_id |-> 1, name |-> "y", markdown |-> OldMarkdown]>>] }

\* One run over one snippet with two files.
InitSiblings ==
    InitWith({<<s>> : s \in SnippetsWith(<<"x", "y">>, MaxSiblingCommits)},
             NoSkipArgs, SiblingDestStates)

SpecSiblings == InitSiblings /\ [][Next]_vars

\* The command lines of a run over the whole workspace and of the runs
\* restricted to one snippet by --test-snippet-id.
TestArgs ==
    [skip_existing_books : {FALSE}, skip_existing_pages : {FALSE}, test_snippet_id : {NoId, 1, 2}]

\* A workspace of two snippets, "t" and "u", each with the file x or with no
\* file at all.
WorkspaceSources ==
    { <<s, u>> : s \in UNION {SnippetsLike(1, "t", fl, MaxWorkspaceCommits) : fl \in {<<>>, <<"x">>}},
                 u \in UNION {SnippetsLike(2, "u", fl, MaxWorkspaceCommits) : fl \in {<<>>, <<"x">>}} }

\* One run over a workspace of two snippets, on an empty destination.
InitWorkspace == InitWith(WorkspaceSources, TestArgs, EmptyDest)

SpecWorkspace == InitWorkspace /\ [][Next]_vars

RECURSIVE Filler(_, _)
\* The snippets of the ids from..to: no file, no commit, all titled "u".
Filler(from, to) ==
    IF from > to THEN <<>>
    ELSE <<CHOOSE s \in SnippetsLike(from, "u", <<>>, 0) : TRUE>> \o Filler(from + 1, to)

\* Workspaces of up to MaxSnippets snippets: the first has the file x, the
\* others have no file.
ListedSources ==
    {<<>>} \cup { <<s>> \o Filler(2, n) : s \in SnippetsLike(1, "t", <<"x">>, 1),
                                          n \in 1..MaxSnippets }

\* One run over a workspace whose listing takes up to three pages.
InitListing == InitWith(ListedSources, NoSkipArgs, EmptyDest)

SpecListing == InitListing /\ [][Next]_vars

\* ------------------------------------------------------------ history
\* The positions of the history that are about file f of the snippet at
\* position s of the listing.
OfFile(s, f) == {i \in 1..Len(calls) : calls[i].snippet = s /\ calls[i].file = f}

\* The files the history is about: (snippet position, file name).
FilesSeen ==
    {<<calls[i].snippet, calls[i].file>> :
        i \in {j \in 1..Len(calls) : calls[j].op \in {"find_page", "fetch", "create", "update"}}}

IsWrite(c) == c.op \in {"create", "update"}

\* The content fetches of file f that gave content, and all of them.
Revisions(s, f) ==
    {i \in OfFile(s, f) : calls[i].op = "fetch" /\ calls[i].payload # NoPayload}
Fetches(s, f) == {i \in OfFile(s, f) : calls[i].op = "fetch"}

\* The write requests made for the revision fetched at position i: they
\* follow the fetch at once.
WritesOf(i) ==
    {j \in (i + 1)..Len(calls) :
        /\ IsWrite(calls[j])
        /\ \A k \in (i + 1)..j : IsWrite(calls[k])}

\* Revisions i < j of one file with no revision with content between them.
AdjacentRevisions(s, f, i, j) ==
    /\ i \in Revisions(s, f)
    /\ j \in Revisions(s, f)
    /\ i < j
    /\ \A k \in Revisions(s, f) : ~(i < k /\ k < j)

\* The answer of the page lookup that started the replay of file f.
LookupOf(s, f) ==
    calls[CHOOSE i \in OfFile(s, f) : calls[i].op = "find_page"]

\* ------------------------------------------------------------ claims
\* C1: for every (snippet, file) of a run the page-create request is made at
\* most once, whatever the commits, the contents and the outcomes are.
C1_AtMostOneCreate ==
    \A sf \in FilesSeen :
        Cardinality({i \in OfFile(sf[1], sf[2]) : calls[i].op = "create"}) <= 1

\* C1 witness: a page was created and a later revision of the file has been
\* replayed after it.
C1_Witness ==
    \E sf \in FilesSeen : \E i, j \in OfFile(sf[1], sf[2]) :
        /\ i < j
        /\ calls[i].op = "create"
        /\ calls[j].op = "fetch" /\ calls[j].payload # NoPayload

\* C2: the write requests of a file are made in the oldest-first order of the
\* commits: a write for a commit never follows a write for a newer commit.
C2_WritesOldestFirst ==
    \A sf \in FilesSeen : \A i, j \in OfFile(sf[1], sf[2]) :
        (i < j /\ IsWrite(calls[i]) /\ IsWrite(calls[j]))
            => calls[i].commit <= calls[j].commit

\* C2 witness: writes for two different commits of a file have been made.
C2_Witness ==
    \E sf \in FilesSeen : \E i, j \in OfFile(sf[1], sf[2]) :
        /\ i < j
        /\ IsWrite(calls[i]) /\ IsWrite(calls[j])
        /\ calls[i].commit # calls[j].commit

\* C3: of two adjacent revisions of a file with the same content, not both
\* lead to a write request.
C3_IdenticalNotWrittenTwice ==
    \A sf \in FilesSeen : \A i, j \in OfFile(sf[1], sf[2]) :
        (/\ AdjacentRevisions(sf[1], sf[2], i, j)
         /\ calls[i].payload[2] = calls[j].payload[2])
            => ~(WritesOf(i) # {} /\ WritesOf(j) # {})

\* C3 witness: the first of two adjacent revisions with the same content was
\* written to a page that was there before the run, the write failed, and the
\* second led to no write.
C3_Witness ==
    \E sf \in FilesSeen : \E i, j \in OfFile(sf[1], sf[2]) :
        /\ AdjacentRevisions(sf[1], sf[2], i, j)
        /\ calls[i].payload[2] = calls[j].payload[2]
        /\ \E w \in WritesOf(i) : calls[w].op = "update" /\ ~calls[w].ok
        /\ WritesOf(j) = {}
        /\ LookupOf(sf[1], sf[2]).id # NoId

\* The step under way fetched a revision with content: its payload, and the
\* write requests the step made for it (what follows the fetch, a report
\* aside).
FetchedNow ==
    /\ Len(calls') > Len(calls)
    /\ calls'[Len(calls) + 1].op = "fetch"
    /\ calls'[Len(calls) + 1].payload # NoPayload
PayloadNow == calls'[Len(calls) + 1].payload
WritesNow ==
    SelectPositions(calls', {i \in (Len(calls) + 2)..Len(calls') : IsWrite(calls'[i])}, 1)

\* C4: a revision with content that is processed while the page id is set,
\* and is not the one that created the page, gets exactly one update request
\* when its payload differs from the previous payload.
C4_UpdateOnEveryChange ==
    [][(/\ pc = "replay"
        /\ Truthy(page_id)
        /\ FetchedNow
        /\ PayloadNow # previous_page_content)
           => (Len(WritesNow) = 1 /\ WritesNow[1].op = "update")]_vars

\* The content of file f of the snippet at the commits 1..n, oldest first.
ContentOf(snippet, f) == [h \in 1..snippet.ncommits |-> snippet.content[<<f, h>>]]

\* The write requests made for file f, in order, as (op, commit, content).
WriteLog(s, f) ==
    LET ws == SelectPositions(calls, {i \in OfFile(s, f) : IsWrite(calls[i])}, 1)
    IN  [k \in 1..Len(ws) |-> <<ws[k].op, ws[k].commit, ws[k].payload[2]>>]

\* Every request of the run so far succeeded.
AllSucceeded == \A i \in 1..Len(calls) : calls[i].ok

\* The run has ended and file f was replayed over all of its n commits.
ReplayedInFull(s, f, n) ==
    /\ pc = "exit"
    /\ {calls[i].commit : i \in Fetches(s, f)} = 1..n

\* C5: with no page for the file in the destination and every request
\* succeeding, the contents [A, A, B] (A # B) lead to exactly one create, for
\* the first A, then exactly one update, for B, and to nothing for the second A.
C5_AABCreatesThenUpdates ==
    \A a, b \in Contents :
        (/\ a # b
         /\ ContentOf(source[1], "x") = <<a, a, b>>
         /\ ReplayedInFull(1, "x", 3)
         /\ AllSucceeded
         /\ LookupOf(1, "x").id = NoId)
            => WriteLog(1, "x") = << <<"create", 1, a>>, <<"update", 3, b>> >>

\* C5 witness: such a run has ended, with its two writes made.
C5_Witness ==
    /\ ContentOf(source[1], "x") = <<"A", "A", "B">>
    /\ ReplayedInFull(1, "x", 3)
    /\ AllSucceeded
    /\ LookupOf(1, "x").id = NoId
    /\ Len(WriteLog(1, "x")) = 2

\* C6: the commit whose content leads to the create request never also leads
\* to an update request.
C6_NoUpdateWithCreate ==
    \A sf \in FilesSeen : \A i, j \in OfFile(sf[1], sf[2]) :
        (calls[i].op = "create" /\ calls[j].op = "update")
            => calls[i].commit # calls[j].commit

\* C6 witness: a page was created and, for a later commit, updated.
C6_Witness ==
    \E sf \in FilesSeen : \E i, j \in OfFile(sf[1], sf[2]) :
        /\ calls[i].op = "create" /\ calls[i].ok
        /\ calls[j].op = "update"
        /\ i < j

\* The fetches of file f, in order.
FetchLog(s, f) == SelectPositions(calls, Fetches(s, f), 1)

\* The file's content was absent for the fetch c: the source has no such
\* file at the commit, or the request failed.
AbsentAt(c) ==
    \/ ~c.ok
    \/ Snippet(snippets[c.snippet].id).content[<<c.file, c.commit>>] = NotFound

\* The file's content was absent at the first k fetches and present at every
\* later one so far, of which there is one.
AbsentThenPresent(s, f, k) ==
    LET fs == FetchLog(s, f)
    IN  /\ k < Len(fs)
        /\ \A n \in 1..Len(fs) : AbsentAt(fs[n]) <=> n <= k

\* C7: when the lookup gave no page and the content is absent at the first k
\* commits and present from the next one on, no write request is made for the
\* first k commits and exactly one create request is made, with the payload
\* made of the source's content at commit k+1.
C7_AbsentThenCreate ==
    \A sf \in FilesSeen : \A k \in 0..Len(calls) :
        (/\ LookupOf(sf[1], sf[2]).id = NoId
         /\ AbsentThenPresent(sf[1], sf[2], k))
            => LET fs == FetchLog(sf[1], sf[2])
                   first == fs[k + 1].commit
                   snippet == Snippet(snippets[sf[1]].id)
                   creates == {i \in OfFile(sf[1], sf[2]) : calls[i].op = "create"}
               IN  /\ \A i \in OfFile(sf[1], sf[2]) :
                         IsWrite(calls[i]) => calls[i].commit >= first
                   /\ Cardinality(creates) = 1
                   /\ \A i \in creates :
                         /\ calls[i].commit = first
                         /\ calls[i].payload =
                              PageContent([hash |-> first], snippet.content[<<sf[2], first>>])

\* C7 witness: the content was absent at two commits, the page was created at
\* the third.
C7_Witness ==
    \E sf \in FilesSeen :
        /\ LookupOf(sf[1], sf[2]).id = NoId
        /\ LookupOf(sf[1], sf[2]).ok
        /\ AbsentThenPresent(sf[1], sf[2], 2)
        /\ \E i \in OfFile(sf[1], sf[2]) : calls[i].op = "create" /\ calls[i].ok

\* ------------------------------------------------------------ two runs
\* The ids the destination gave to the books and pages created by the
\* requests of this run from position k of the history on.
BooksCreatedFrom(k) ==
    {calls[j].id : j \in {i \in k..Len(calls) : calls[i].op = "create_book" /\ calls[i].ok}}
PagesCreatedFrom(k) ==
    {calls[j].id : j \in {i \in k..Len(calls) : calls[i].op = "create" /\ calls[i].ok}}

\* The request at position k asks for a book, or a page, that the destination
\* already held when it was made: a book of the snippet's title, a page of the
\* file's name in a book of the snippet's title.
CreatesBookAgain(k) ==
    /\ calls[k].op = "create_book"
    /\ \E b \in (1..Len(books)) \ BooksCreatedFrom(k) : books[b] = calls[k].file
CreatesPageAgain(k) ==
    /\ calls[k].op = "create"
    /\ \E q \in (1..Len(pages)) \ PagesCreatedFrom(k) :
          /\ pages[q].name = calls[k].file
          /\ books[pages[q].book_id] = snippets[calls[k].snippet].title

\* No two books of one name, no two pages of one name in books of one name.
OneBookPerTitle ==
    \A a, b \in 1..Len(books) : books[a] = books[b] => a = b
OnePagePerFile ==
    \A p, q \in 1..Len(pages) :
        (pages[p].name = pages[q].name
         /\ books[pages[p].book_id] = books[pages[q].book_id]) => p = q

\* C8: two runs over an unchanged source leave at most one book for the
\* snippet and at most one page for each of its files, and the second run asks
\* for no book and no page that the first run created.
C8_SecondRunCreatesNothingAgain ==
    /\ OneBookPerTitle
    /\ OnePagePerFile
    /\ run = 2 => \A k \in 1..Len(calls) : ~CreatesBookAgain(k) /\ ~CreatesPageAgain(k)

\* C9: the second of two runs over an unchanged source makes no page-update
\* request: none for any file whose page the first run left in the
\* destination, where the lookup of the second run finds it.
C9_SecondRunUpdatesNothing ==
    run = 2 =>
        \A sf \in FilesSeen :
            LookupOf(sf[1], sf[2]).id # NoId =>
                \A k \in OfFile(sf[1], sf[2]) : calls[k].op # "update"

\* The payload recorded before the revision fetched at position i of the
\* history of file f: that of the revision with content before it, if any.
PreviousPayload(s, f, i) ==
    LET before == {j \in Revisions(s, f) : j < i}
    IN  IF before = {} THEN NoPayload
        ELSE calls[CHOOSE j \in before : \A k \in before : k <= j].payload

\* C9 as amended: in the second run, for a file whose page the lookup finds,
\* the previous payload starts empty: an update is requested for the first
\* revision with content and for every later one whose payload differs from
\* that of the revision with content before it, and for no other; no page is
\* created.
C9_SecondRunUpdatesOnChange ==
    run = 2 =>
        \A sf \in FilesSeen :
            LookupOf(sf[1], sf[2]).id # NoId =>
                /\ \A i \in OfFile(sf[1], sf[2]) : calls[i].op # "create"
                /\ \A i \in Revisions(sf[1], sf[2]) :
                      LET updates == {w \in WritesOf(i) : calls[w].op = "update"}
                      IN  IF calls[i].payload # PreviousPayload(sf[1], sf[2], i)
                          THEN Cardinality(updates) = 1
                          ELSE updates = {}

\* C9 witness: the second run found the page the first run created, requested
\* an update for the first revision and none for the next, equal one.
C9_Witness ==
    /\ run = 2
    /\ \E i, j \in OfFile(1, "x") :
          /\ LookupOf(1, "x").id # NoId
          /\ AdjacentRevisions(1, "x", i, j)
          /\ PreviousPayload(1, "x", i) = NoPayload
          /\ WritesOf(i) # {}
          /\ calls[j].payload = calls[i].payload
          /\ WritesOf(j) = {}

\* ------------------------------------------------------------ sibling files
\* The create request for file f failed.
CreateFailed(s, f) ==
    \E i \in OfFile(s, f) : calls[i].op = "create" /\ ~calls[i].ok

\* The page lookup for file f has been made.
Started(s, f) == \E i \in OfFile(s, f) : calls[i].op = "find_page"

\* The fetches and writes of file f, in order.
ReplayLog(s, f) ==
    SelectPositions(calls, {i \in OfFile(s, f) : calls[i].op \in {"fetch", "create", "update"}}, 1)

\* The per-file state at the start of a replay whose lookup gave `found`.
FreshCursor(found) ==
    [page_id |-> found, created |-> FALSE, first |-> FALSE, prev |-> NoPayload]

RECURSIVE Conforms(_, _, _)
\* The requests log[k..] are those the replay makes from the per-file state
\* cur, given the contents fetched and the outcomes of the writes in the log.
Conforms(cur, log, k) ==
    IF k > Len(log) THEN TRUE
    ELSE IF log[k].op # "fetch" THEN FALSE
    ELSE IF log[k].payload = NoPayload THEN Conforms(cur, log, k + 1)
    ELSE LET answered == k < Len(log) /\ IsWrite(log[k + 1])
             write == IF answered /\ ~log[k + 1].ok THEN "error" ELSE "ok"
             new_id == IF answered THEN log[k + 1].id ELSE NoId
             step == SyncStep(cur, log[k].payload, write, new_id)
             n == Len(step.writes)
         IN  /\ k + n <= Len(log)
             /\ \A m \in 1..n :
                   /\ log[k + m].op = step.writes[m].op
                   /\ log[k + m].id = step.writes[m].id
                   /\ log[k + m].ok = step.writes[m].ok
                   /\ log[k + m].payload = log[k].payload
                   /\ log[k + m].commit = log[k].commit
             /\ IF step.brk THEN k + n = Len(log)
                ELSE Conforms(step.cur, log, k + n + 1)

\* The commits fetched for file f, in order, and the whole commit sequence.
FetchedCommits(s, f) ==
    LET fs == FetchLog(s, f) IN [k \in 1..Len(fs) |-> fs[k].commit]
CommitHashes == [k \in 1..Len(commits) |-> commits[k].hash]

\* C10: when the create request for a file x fails, every other file y of the
\* snippet starts from a fresh per-file state (page id as its own lookup gave
\* it, both flags false, no previous payload), makes exactly the requests the
\* replay makes from that state, and is replayed over the whole commit
\* sequence (up to a failed create of its own).
C10_SiblingReplayedInFull ==
    \A x, y \in Range(current_files) :
        (x # y /\ CreateFailed(si, x)) =>
            /\ (pc = "replay" /\ current_files[fi] = y /\ ci = 1) =>
                  Cursor = FreshCursor(LookupOf(si, y).id)
            /\ Started(si, y) =>
                  IF args.skip_existing_pages /\ LookupOf(si, y).id # NoId
                  THEN ReplayLog(si, y) = <<>>
                  ELSE Conforms(FreshCursor(LookupOf(si, y).id), ReplayLog(si, y), 1)
            /\ pc = "exit" =>
                  /\ Started(si, y)
                  /\ \/ args.skip_existing_pages /\ LookupOf(si, y).id # NoId
                     \/ CreateFailed(si, y)
                     \/ FetchedCommits(si, y) = CommitHashes

\* C10 witness: the create for x failed at the first of two commits and y was
\* then replayed over both, creating its page and going on.
C10_Witness ==
    /\ pc = "exit"
    /\ CreateFailed(1, "x")
    /\ FetchedCommits(1, "x") = <<1>>
    /\ FetchedCommits(1, "y") = <<1, 2>>
    /\ \E i \in OfFile(1, "y") : calls[i].op = "create" /\ calls[i].ok
    /\ Cardinality(Revisions(1, "y")) = 2

\* ------------------------------------------------------------ exit code
\* The request, or one of the page requests, for the initial snippet listing
\* failed.
ListingFailed == calls # <<>> /\ calls[1].op = "list_snippets" /\ ~calls[1].ok

\* C11: the process exits with code 1 when the initial listing could not be
\* retrieved, for the whole workspace and for a run restricted to one snippet
\* id alike, and with code 0 in every other case.
C11_ExitOneIffListingFails ==
    pc = "exit" => exitCode = Exited(IF ListingFailed THEN 1 ELSE 0)

\* ------------------------------------------------------------ provenance
\* The page id was set when the revision fetched at position j of the history
\* of file f was processed: the lookup found the page, or it was created for
\* an earlier revision.
PageIdSetAt(s, f, j) ==
    \/ LookupOf(s, f).id # NoId
    \/ \E w \in OfFile(s, f) : w < j /\ calls[w].op = "create" /\ calls[w].ok

\* C12: the payload that is compared carries the commit's provenance: of two
\* adjacent revisions of a file with the same content and different
\* provenance, the second gets an update request when the page id is set and
\* the first is not the revision that created the page.
C12_ProvenanceChangeUpdates ==
    \A sf \in FilesSeen : \A i, j \in OfFile(sf[1], sf[2]) :
        (/\ AdjacentRevisions(sf[1], sf[2], i, j)
         /\ calls[i].payload[2] = calls[j].payload[2]
         /\ commit_info([hash |-> calls[i].commit]) # commit_info([hash |-> calls[j].commit])
         /\ PageIdSetAt(sf[1], sf[2], j)
         /\ \A w \in WritesOf(i) : calls[w].op # "create")
            => \E w \in WritesOf(j) : calls[w].op = "update"

\* ------------------------------------------------------------ pagination
\* The number of page requests of a listing that gave a page before the first
\* that did not.
LeadingOk(script) ==
    CHOOSE k \in 0..Len(script) :
        /\ \A j \in 1..k : script[j] = "ok"
        /\ k < Len(script) => script[k + 1] # "ok"

\* What the contract of get_paginated_results gives for a listing of `items`
\* served PageLen at a time: all of them when every page request gave a page,
\* the failure signal when one failed, and the items of the pages before it
\* when one was well-formed without the items key.
Paginated(items, script) ==
    LET k == LeadingOk(script)
    IN  IF k = Len(script) THEN Fetched(items)
        ELSE IF script[k + 1] = "error" THEN FetchFailed
        ELSE Fetched(SubSeq(items, 1, k * PageLen))

\* C13: get_paginated_results follows the cursor to the last page and returns
\* the batches concatenated in order; a failed page request gives the failure
\* signal and nothing of the earlier pages (main then exits with 1); a page
\* without the items key ends the walk with the items of the earlier pages.
C13_PaginatedResults ==
    (calls # <<>> /\ args.test_snippet_id = NoId) =>
        LET expected == Paginated(Summaries, calls[1].payload)
        IN  IF expected.failed
            THEN snippets = <<>> /\ exitCode = Exited(1)
            ELSE snippets = expected.values /\ exitCode # Exited(1)

\* C13 witness: a listing of three pages whose third page lacked the items
\* key gave the two full pages before it.
C13_Witness ==
    /\ calls # <<>>
    /\ calls[1].payload = <<"ok", "ok", "novalues">>
    /\ Len(Summaries) > 2 * PageLen
    /\ snippets = SubSeq(Summaries, 1, 2 * PageLen)

\* ------------------------------------------------------------ book resolution
\* The books of the title asked for at position k of the history that the
\* destination held when that request was made.
BooksMatching(k) ==
    {b \in (1..Len(books)) \ BooksCreatedFrom(k) : books[b] = calls[k].file}

\* C14: a book is created for a snippet only when the destination holds no
\* book of exactly the snippet's title; when it holds one or more, the first
\* in listing order is the one the lookup gives and no create follows,
\* whatever the outcome of the lookup request is.
C14_BookReusedByExactName ==
    \A k \in 1..Len(calls) :
        /\ calls[k].op = "create_book" => BooksMatching(k) = {}
        /\ (calls[k].op = "find_book" /\ BooksMatching(k) # {}) =>
              /\ calls[k].id \in BooksMatching(k)
              /\ \A b \in BooksMatching(k) : calls[k].id <= b
              /\ k < Len(calls) => calls[k + 1].op # "create_book"

\* ------------------------------------------------------------ snippet loop
\* The requests of the history that are about the snippet at position s.
OfSnippet(s) == {i \in 1..Len(calls) : calls[i].snippet = s}

\* The snippet at position s was given up: its book could not be created, its
\* details could not be fetched or list no file, or its history fetch failed.
GivenUp(s) ==
    \E i \in OfSnippet(s) :
        \/ calls[i].op = "create_book" /\ ~calls[i].ok
        \/ calls[i].op = "details" /\ ~calls[i].ok
        \/ calls[i].op = "details" /\ Snippet(snippets[s].id).files = <<>>
        \/ calls[i].op = "commits" /\ ~calls[i].ok

\* C15: for a snippet that is given up, no page lookup, content fetch, page
\* create or page update is made, and the snippets after it in the listing
\* are still processed: when the run ends, the book of every snippet of the
\* listing has been looked up.
C15_GivenUpSnippetOnly ==
    /\ \A s \in 1..Len(snippets) :
          GivenUp(s) =>
              \A i \in OfSnippet(s) :
                  calls[i].op \notin {"find_page", "fetch", "create", "update"}
    /\ pc = "exit" =>
          \A s \in 1..Len(snippets) :
              \E i \in OfSnippet(s) : calls[i].op = "find_book"

\* C15 witness: the history fetch of the first snippet failed and the run
\* went on to create a page for the file of the second.
C15_Witness ==
    /\ pc = "exit"
    /\ Len(snippets) = 2
    /\ \E i \in OfSnippet(1) : calls[i].op = "commits" /\ ~calls[i].ok
    /\ \E i \in OfSnippet(2) : calls[i].op = "create" /\ calls[i].ok

\* ------------------------------------------------------------ empty history
\* The request for the commits of the snippet at position s, if it was made.
HistoryOf(s) == {i \in OfSnippet(s) : calls[i].op = "commits"}

\* The history fetch of the snippet at position s succeeded with no commit.
EmptyHistory(s) ==
    \E i \in HistoryOf(s) :
        LET listed == Paginated(NewestFirst(Snippet(snippets[s].id).ncommits),
                                calls[i].payload)
        IN  ~listed.failed /\ listed.values = <<>>

\* The replay of file f is over: the run has ended or gone on to another
\* file or snippet.
ReplayOver(s, f) ==
    /\ Started(s, f)
    /\ pc = "exit" \/ si # s \/ current_files[fi] # f

\* File f was skipped because its page exists (--skip-existing-pages).
Skipped(s, f) == args.skip_existing_pages /\ LookupOf(s, f).id # NoId

\* C16: the commit sequence that is replayed is never empty; when the history
\* fetch gave no commit, it is the one synthetic commit HEAD dated with the
\* snippet's last update, and every file that is replayed gets exactly one
\* content fetch, at HEAD, and at most one write.
C16_NeverEmptyHistory ==
    /\ pc \in {"file", "replay"} => commits # <<>>
    /\ \A s \in 1..Len(snippets) :
          EmptyHistory(s) =>
              /\ (s = si /\ pc \in {"file", "replay"}) =>
                    commits = <<[hash |-> HEAD,
                                 date |-> Snippet(snippets[s].id).updated_on]>>
              /\ \A sf \in FilesSeen :
                    sf[1] = s =>
                        /\ \A i \in Fetches(s, sf[2]) : calls[i].commit = HEAD
                        /\ Cardinality(Fetches(s, sf[2])) <= 1
                        /\ Cardinality({i \in OfFile(s, sf[2]) : IsWrite(calls[i])}) <= 1
                        /\ (ReplayOver(s, sf[2]) /\ ~Skipped(s, sf[2])) =>
                              Cardinality(Fetches(s, sf[2])) = 1

\* C16 witness: two snippets without commits; the file of each was fetched
\* once, at HEAD, and written once.
C16_Witness ==
    /\ pc = "exit"
    /\ Len(snippets) = 2
    /\ \A s \in 1..2 :
          /\ source[s].ncommits = 0
          /\ EmptyHistory(s)
          /\ \E i \in Fetches(s, "x") : calls[i].commit = HEAD
          /\ \E i \in OfFile(s, "x") : IsWrite(calls[i]) /\ calls[i].ok

\* ------------------------------------------------------------ failed create
\* C17: when the create request for a file fails, nothing more is fetched or
\* written for the file, the page id and the created flag stay unset, and the
\* file is reported as not created at once.
C17_FailedCreateStopsFile ==
    \A sf \in FilesSeen : \A k \in OfFile(sf[1], sf[2]) :
        (calls[k].op = "create" /\ ~calls[k].ok) =>
            /\ k < Len(calls)
            /\ calls[k + 1].op = "not_created"
            /\ calls[k + 1].snippet = sf[1] /\ calls[k + 1].file = sf[2]
            /\ \A i \in OfFile(sf[1], sf[2]) : i > k => i = k + 1
            /\ Len(calls) = k + 1 => (page_id = NoId /\ ~page_created_in_this_run)

\* C17 witness: the create for the first of three commits failed; the file
\* has content at the later commits and none of them was fetched.
C17_Witness ==
    /\ pc = "exit"
    /\ source[1].ncommits = 3
    /\ \A h \in 1..3 : source[1].content[<<"x", h>>] # NotFound
    /\ CreateFailed(1, "x")
    /\ FetchedCommits(1, "x") = <<1>>
    /\ calls[Len(calls)].op = "not_created"

\* ------------------------------------------------------------ failed update
\* The update request for the revision fetched at position i failed.
UpdateFailedAt(i) == \E w \in WritesOf(i) : calls[w].op = "update" /\ ~calls[w].ok

\* C18: a failed update does not stop the replay of the file and leaves the
\* page id as it is: every commit of the file is still fetched, no page is
\* created, the later writes are updates of the same page, and the next
\* revision with content is updated exactly when its payload differs from the
\* payload of the failed update.
C18_FailedUpdateGoesOn ==
    \A sf \in FilesSeen : \A k \in OfFile(sf[1], sf[2]) :
        (calls[k].op = "update" /\ ~calls[k].ok) =>
            /\ Len(calls) = k => page_id = calls[k].id
            /\ \A w \in OfFile(sf[1], sf[2]) :
                  (w > k /\ IsWrite(calls[w])) =>
                      calls[w].op = "update" /\ calls[w].id = calls[k].id
            /\ \A i, j \in OfFile(sf[1], sf[2]) :
                  (AdjacentRevisions(sf[1], sf[2], i, j) /\ k \in WritesOf(i)) =>
                      IF calls[j].payload # calls[i].payload
                      THEN Cardinality(WritesOf(j)) = 1
                      ELSE WritesOf(j) = {}
            /\ (ReplayOver(sf[1], sf[2]) /\ sf[1] = si) =>
                  FetchedCommits(sf[1], sf[2]) = CommitHashes

\* C18 witness: the update for one revision failed, the next revision, with
\* another content, was fetched and updated, and the run has ended.
C18_Witness ==
    /\ pc = "exit"
    /\ \E i, j \in OfFile(1, "x") :
          /\ AdjacentRevisions(1, "x", i, j)
          /\ UpdateFailedAt(i)
          /\ calls[j].payload # calls[i].payload
          /\ \E w \in WritesOf(j) : calls[w].op = "update" /\ calls[w].ok

\* ------------------------------------------------------------ absent content
\* The step under way fetched a revision whose content is absent: the source
\* has no such file at the commit, or the request failed.
FetchedAbsentNow ==
    /\ Len(calls') > Len(calls)
    /\ calls'[Len(calls) + 1].op = "fetch"
    /\ AbsentAt(calls'[Len(calls) + 1])

\* C19: a revision whose content is absent makes no write request and leaves
\* the per-file state (page id, created flag, suppress flag, previous
\* payload) and the destination as they were.
C19_AbsentRevisionChangesNothing ==
    [][(pc = "replay" /\ FetchedAbsentNow) =>
           /\ UNCHANGED <<cursor, dest>>
           /\ \A i \in (Len(calls) + 1)..Len(calls') : ~IsWrite(calls'[i])]_vars

\* C19 witness: right after the page was created, a revision whose content
\* is absent was fetched: the page id, both flags and the previous payload are
\* those the create left.
C19_Witness ==
    /\ Len(calls) >= 2
    /\ calls[Len(calls)].op = "fetch"
    /\ AbsentAt(calls[Len(calls)])
    /\ calls[Len(calls) - 1].op = "create" /\ calls[Len(calls) - 1].ok
    /\ page_id = calls[Len(calls) - 1].id
    /\ page_created_in_this_run
    /\ processed_first_commit_for_page
    /\ previous_page_content = calls[Len(calls) - 1].payload

\* ------------------------------------------------------------ existing page
\* C20: when the lookup at the start of a file's replay finds a page, a page
\* of exactly the file's name in the snippet's book, its id is the page id
\* for the whole replay: no page is created for the file and every write for
\* it is an update of that page.
C20_FoundPageIsUpdatedOnly ==
    \A sf \in FilesSeen :
        (Started(sf[1], sf[2]) /\ LookupOf(sf[1], sf[2]).id # NoId) =>
            LET found == LookupOf(sf[1], sf[2]).id
            IN  /\ pages[found].name = sf[2]
                /\ books[pages[found].book_id] = snippets[sf[1]].title
                /\ \A w \in OfFile(sf[1], sf[2]) :
                      IsWrite(calls[w]) => (calls[w].op = "update" /\ calls[w].id = found)
                /\ (pc = "replay" /\ si = sf[1] /\ current_files[fi] = sf[2]) =>
                      page_id = found

\* C20 witness: the page the lookup found was updated for two commits.
C20_Witness ==
    /\ Started(1, "x")
    /\ LookupOf(1, "x").id # NoId
    /\ \E v, w \in OfFile(1, "x") :
          /\ calls[v].op = "update" /\ calls[w].op = "update"
          /\ calls[v].commit < calls[w].commit
          /\ calls[v].id = LookupOf(1, "x").id
          /\ calls[w].id = LookupOf(1, "x").id

\* ------------------------------------------------------------ previous payload
\* The step under way made a create request that failed: the replay of the
\* file is aborted.
AbortedNow == \E k \in 1..Len(WritesNow) : WritesNow[k].op = "create" /\ ~WritesNow[k].ok

\* The payload of the revision the step under way is about: the header and
\* the content the source holds for the file at the commit.
SourcePayloadNow ==
    PageContent(commits[ci],
                Snippet(snippets[si].id).content[<<current_files[fi], commits[ci].hash>>])

\* C21: after every revision with content that does not abort the replay,
\* the previous payload recorded is the payload of that revision, whether it
\* was created, updated, left as unchanged, left by the suppression after the
\* create, or its update failed.
C21_PreviousIsLatestAttempted ==
    [][(pc = "replay" /\ FetchedNow /\ ~AbortedNow) =>
           /\ previous_page_content' = PayloadNow
           /\ previous_page_content' = SourcePayloadNow]_vars

\* C21 witness: the update for a revision has just failed, the page still
\* holds another text, and the previous payload is the payload of the failed
\* update, with commits left to replay.
C21_Witness ==
    /\ pc = "replay"
    /\ calls # <<>>
    /\ calls[Len(calls)].op = "update"
    /\ ~calls[Len(calls)].ok
    /\ pages[calls[Len(calls)].id].markdown # calls[Len(calls)].payload
    /\ previous_page_content = calls[Len(calls)].payload

\* ------------------------------------------------------------ final content
\* The last of a nonempty set of positions of the history.
Last(positions) == CHOOSE i \in positions : \A j \in positions : j <= i

\* The write requests of file f that succeeded.
WrittenOk(s, f) == {i \in OfFile(s, f) : IsWrite(calls[i]) /\ calls[i].ok}

\* C22: when the replay of a file has ended with the page id set and every
\* destination request of the replay succeeded, the payload of the last write is
\* the payload of the newest revision with content, whatever the contents
\* are ([A, B] and [A, B, B] from no page included).
C22_LastWriteIsNewestRevision ==
    \A sf \in FilesSeen :
        (/\ ReplayOver(sf[1], sf[2])
         /\ Revisions(sf[1], sf[2]) # {}
         /\ PageIdSetAt(sf[1], sf[2], Len(calls) + 1)
         /\ \A i \in OfFile(sf[1], sf[2]) :
               (IsWrite(calls[i]) \/ calls[i].op = "find_page") => calls[i].ok)
            => /\ WrittenOk(sf[1], sf[2]) # {}
               /\ calls[Last(WrittenOk(sf[1], sf[2]))].payload
                      = calls[Last(Revisions(sf[1], sf[2]))].payload

====
